---- MODULE Spec2Model ----
(***************************************************************************)
(* Portfolio analytics of the portfolio manager MCP server                 *)
(* (src/examples/portfoliomanager/mcp_portfolio_server/server.py), the     *)
(* tool dispatcher and the loops of the agent scripts that call it.        *)
(*                                                                         *)
(* Numbers.  The server computes in floating point; the model computes in  *)
(* exact arithmetic on integers:                                           *)
(*   quantity                     tenths of a unit                         *)
(*   purchase_price/current_price cents                                    *)
(*   quantity * price             thousandths of a currency unit (mills)   *)
(*   a value rounded to 2 places  cents                                    *)
(*   a percentage rounded to 2    hundredths of a percent                  *)
(*   hhi rounded to 4 places      ten-thousandths                          *)
(*   risk score rounded to 1      tenths                                   *)
(* round() is round-half-to-even, which is what Python's round does on a   *)
(* value that is exact in binary; the quantities and prices of Catalogue   *)
(* are exact in binary (multiples of 1/4), so their products are too.      *)
(***************************************************************************)
EXTENDS Integers, Sequences, FiniteSets, TLC

VARIABLES
    store,   \* portfolio_data.json: whether it exists, and its holdings
    call,    \* the tool invoked last and its argument
    ret,     \* what that invocation returned (or the exception it raised)
    div,     \* the report assess_risk obtained from assess_diversification
    agent    \* a command-line agent script: where it is in its loop, its
             \* message history or its remote run

vars == <<store, call, ret, div, agent>>

\* ---------------------------------------------------------------- bounds
MaxHoldings == 11
MaxScoreHoldings == 7

\* ------------------------------------------------------------ arithmetic
Abs(n) == IF n < 0 THEN 0 - n ELSE n

RECURSIVE GCD(_, _)
GCD(a, b) == IF b = 0 THEN a ELSE GCD(b, a % b)

RECURSIVE SumSeq(_)
SumSeq(s) == IF s = <<>> THEN 0 ELSE Head(s) + SumSeq(Tail(s))

RECURSIVE MaxSeq(_)
MaxSeq(s) == IF Len(s) = 1 THEN s[1]
             ELSE LET m == MaxSeq(Tail(s)) IN IF s[1] >= m THEN s[1] ELSE m

RECURSIVE GCDSeq(_)
GCDSeq(s) == IF s = <<>> THEN 0 ELSE GCD(Head(s), GCDSeq(Tail(s)))

\* n / d rounded to the nearest integer, ties to the even one (d > 0)
RoundHalfEven(n, d) ==
    LET q == n \div d
        r == n % d
    IN  IF 2 * r < d THEN q
        ELSE IF 2 * r > d THEN q + 1
        ELSE IF q % 2 = 0 THEN q ELSE q + 1

\* round(x, 2) of a value in mills, in cents
round2(mills) == RoundHalfEven(mills, 10)

\* round(n / d * scale) for d > 0, computed on the reduced fraction
round_ratio(n, d, scale) ==
    LET g == GCD(Abs(n), d)
    IN  RoundHalfEven((n \div g) * scale, d \div g)

\* ----------------------------------------------------------------- text
\* str.upper() on the tickers the model uses
upper(s) ==
    CASE s = "aapl" -> "AAPL"
      [] s = "tsla" -> "TSLA"
      [] s = "xyz"  -> "XYZ"
      [] OTHER      -> s

\* ------------------------------------------------------------- the store
\* The holdings the environment may write to portfolio_data.json.
Catalogue ==
    << [ticker |-> "AAPL",  name |-> "Apple",
        quantity |-> 100, purchase_price |-> 15000, current_price |-> 18000],
       [ticker |-> "tsla",  name |-> "Tesla",
        quantity |-> 50,  purchase_price |-> 0,     current_price |-> 36000],
       [ticker |-> "GOOGL", name |-> "Alphabet",
        quantity |-> 25,  purchase_price |-> 1175,  current_price |-> 1125],
       [ticker |-> "XYZ",   name |-> "Xyz Corp",
        quantity |-> 0,   purchase_price |-> 1000,  current_price |-> 2000],
       [ticker |-> "aapl",  name |-> "Apple (second lot)",
        quantity |-> 25,  purchase_price |-> 10000, current_price |-> 9000] >>

CatalogueIndex(h) == CHOOSE i \in 1..Len(Catalogue) : Catalogue[i] = h

TickerArgs == {"AAPL", "TSLA", "xyz", "MSFT"}

\* store.exists: the file is there; store.parses: its text is JSON;
\* store.holdings: the "holdings" list of that JSON
NoStore == [exists |-> FALSE, parses |-> TRUE, holdings |-> <<>>]

Raise(e) == [raised |-> e]
Raised(r) == "raised" \in DOMAIN r

NoCall == [op |-> "none", ticker |-> ""]
NoAgent == [pc |-> "none"]
NoRet  == [none |-> TRUE]

\* ----------------------------------------------------------- the loader
\* a loader that answers text it cannot parse with an empty portfolio
read_store_lenient(s) ==
    IF ~s.exists THEN Raise("FileNotFoundError")
    ELSE IF ~s.parses THEN [holdings |-> <<>>]
    ELSE [holdings |-> s.holdings]

\* open() + json.load() of the store
read_store(s) ==
    IF ~s.exists THEN Raise("FileNotFoundError")
    ELSE IF ~s.parses THEN Raise("JSONDecodeError")
    ELSE [holdings |-> s.holdings]

\* the loader without the exists() test
load_portfolio_unchecked(s) == read_store(s)

load_portfolio(s) ==
    IF ~s.exists THEN [holdings |-> <<>>]
    ELSE read_store(s)

\* holding[k] for some k of keys raises KeyError
missing_key(holding, keys) == ~(keys \subseteq DOMAIN holding)

\* the first exception among the results rs, when one of them raised
first_raised(rs) ==
    rs[CHOOSE i \in 1..Len(rs) :
           /\ Raised(rs[i])
           /\ \A j \in 1..(i - 1) : ~Raised(rs[j])]

\* ------------------------------------------------------ get_all_holdings
\* "if total_cost > 0" of get_all_holdings
holding_cost_positive(total_cost) == total_cost > 0

\* the difference taken on the amounts as reported, after rounding
profit_loss_of_reported(total_value, total_cost) ==
    10 * (round2(total_value) - round2(total_cost))

\* "profit_loss = total_value - total_cost", in mills
profit_loss_of(total_value, total_cost) == total_value - total_cost

\* the body of the loop of get_all_holdings, for one holding
enriched_holding(holding) ==
    LET total_cost  == holding.quantity * holding.purchase_price
        total_value == holding.quantity * holding.current_price
        profit_loss == profit_loss_of(total_value, total_cost)
    IN  IF missing_key(holding, {"quantity", "purchase_price",
                                 "current_price", "ticker", "name"})
        THEN Raise("KeyError")
        ELSE IF holding_cost_positive(total_cost) /\ total_cost = 0
        THEN Raise("ZeroDivisionError")
        ELSE [ticker          |-> holding.ticker,
              name            |-> holding.name,
              quantity        |-> holding.quantity,
              purchase_price  |-> holding.purchase_price,
              current_price   |-> holding.current_price,
              total_value     |-> round2(total_value),
              total_cost      |-> round2(total_cost),
              profit_loss     |-> round2(profit_loss),
              profit_loss_pct |->
                  IF holding_cost_positive(total_cost)
                  THEN round_ratio(profit_loss, total_cost, 10000)
                  ELSE 0]

\* sum(h[field] for h in enriched_holdings), a sum of cents, in mills
sum_enriched(enriched, field) ==
    10 * SumSeq([i \in 1..Len(enriched) |-> enriched[i][field]])

get_all_holdings(s) ==
    LET portfolio == load_portfolio(s)
    IN  IF Raised(portfolio) THEN portfolio
        ELSE
        LET holdings == portfolio.holdings
            enriched_holdings ==
                [i \in 1..Len(holdings) |-> enriched_holding(holdings[i])]
        IN  IF \E i \in 1..Len(holdings) : Raised(enriched_holdings[i])
            THEN first_raised(enriched_holdings)
            ELSE [holdings |-> enriched_holdings,
                  summary  |->
                    [total_holdings        |-> Len(enriched_holdings),
                     total_portfolio_value |->
                         round2(sum_enriched(enriched_holdings, "total_value")),
                     total_portfolio_cost  |->
                         round2(sum_enriched(enriched_holdings, "total_cost")),
                     overall_profit_loss   |->
                         round2(sum_enriched(enriched_holdings, "profit_loss"))]]

\* ------------------------------------------------- get_holding_by_ticker
\* the test with ">=" for ">"
ticker_cost_not_negative(total_cost) == total_cost >= 0

\* "if total_cost > 0" of get_holding_by_ticker
ticker_cost_positive(total_cost) == total_cost > 0

\* the body of the matching branch of get_holding_by_ticker
ticker_holding(holding) ==
    LET total_cost  == holding.quantity * holding.purchase_price
        total_value == holding.quantity * holding.current_price
        profit_loss == total_value - total_cost
    IN  IF missing_key(holding, {"quantity", "purchase_price",
                                 "current_price", "ticker", "name"})
        THEN Raise("KeyError")
        ELSE IF ticker_cost_positive(total_cost) /\ total_cost = 0
        THEN Raise("ZeroDivisionError")
        ELSE [ticker          |-> holding.ticker,
              name            |-> holding.name,
              quantity        |-> holding.quantity,
              purchase_price  |-> holding.purchase_price,
              current_price   |-> holding.current_price,
              total_value     |-> round2(total_value),
              total_cost      |-> round2(total_cost),
              profit_loss     |-> round2(profit_loss),
              profit_loss_pct |->
                  IF ticker_cost_positive(total_cost)
                  THEN round_ratio(profit_loss, total_cost, 10000)
                  ELSE 0]

\* the comparison without upper() on the stored ticker
ticker_matches_exact(holding, ticker) == holding.ticker = upper(ticker)

\* "if holding["ticker"].upper() == ticker.upper()"
ticker_matches(holding, ticker) == upper(holding.ticker) = upper(ticker)

not_found(ticker) ==
    [error |-> "Holding with ticker '" \o ticker \o "' not found"]

\* the lookup going on to the last holding that matches
get_holding_by_ticker_last(s, ticker) ==
    LET portfolio == load_portfolio(s)
    IN  IF Raised(portfolio) THEN portfolio
        ELSE
        LET holdings == portfolio.holdings
            matches == {i \in 1..Len(holdings) :
                           /\ ~missing_key(holdings[i], {"ticker"})
                           /\ ticker_matches(holdings[i], ticker)}
            last == CHOOSE i \in matches : \A j \in matches : j <= i
        IN  IF \E i \in 1..Len(holdings) : missing_key(holdings[i], {"ticker"})
            THEN Raise("KeyError")
            ELSE IF matches = {} THEN not_found(ticker)
            ELSE ticker_holding(holdings[last])

get_holding_by_ticker(s, ticker) ==
    LET portfolio == load_portfolio(s)
    IN  IF Raised(portfolio) THEN portfolio
        ELSE
        LET holdings == portfolio.holdings
            \* where the loop stops: at the first holding that matches or
            \* that has no "ticker" to compare
            stops == {i \in 1..Len(holdings) :
                         \/ missing_key(holdings[i], {"ticker"})
                         \/ ticker_matches(holdings[i], ticker)}
            first == CHOOSE i \in stops : \A j \in stops : i <= j
        IN  IF stops = {} THEN not_found(ticker)
            ELSE IF missing_key(holdings[first], {"ticker"})
            THEN Raise("KeyError")
            ELSE ticker_holding(holdings[first])

\* ------------------------------------------------- get_portfolio_summary
\* "if total_cost > 0" of get_portfolio_summary
summary_cost_positive(total_cost) == total_cost > 0

get_portfolio_summary(s) ==
    LET portfolio == load_portfolio(s)
    IN  IF Raised(portfolio) THEN portfolio
        ELSE
        LET holdings == portfolio.holdings
            total_holdings == Len(holdings)
            total_value == SumSeq([i \in 1..Len(holdings) |->
                holdings[i].quantity * holdings[i].current_price])
            total_cost == SumSeq([i \in 1..Len(holdings) |->
                holdings[i].quantity * holdings[i].purchase_price])
            overall_profit_loss == total_value - total_cost
        IN  IF \E i \in 1..Len(holdings) :
                   missing_key(holdings[i], {"quantity", "current_price",
                                             "purchase_price"})
            THEN Raise("KeyError")
            ELSE IF summary_cost_positive(total_cost) /\ total_cost = 0
            THEN Raise("ZeroDivisionError")
            ELSE [total_holdings          |-> total_holdings,
                  total_portfolio_value   |-> round2(total_value),
                  total_portfolio_cost    |-> round2(total_cost),
                  overall_profit_loss     |-> round2(overall_profit_loss),
                  overall_profit_loss_pct |->
                      IF summary_cost_positive(total_cost)
                      THEN round_ratio(overall_profit_loss, total_cost, 10000)
                      ELSE 0]

\* ------------------------------------------------ assess_diversification
_SECTOR_BY_TICKER ==
    [t \in {"AAPL", "MSFT", "GOOGL", "AMZN", "TSLA", "META", "NVDA", "NFLX"} |->
        CASE t \in {"AAPL", "MSFT", "NVDA"}  -> "Technology"
          [] t \in {"GOOGL", "META", "NFLX"} -> "Communication Services"
          [] OTHER                           -> "Consumer Discretionary"]

\* the lookup without upper()
sector_of_as_stored(h) ==
    IF h.ticker \in DOMAIN _SECTOR_BY_TICKER
    THEN _SECTOR_BY_TICKER[h.ticker]
    ELSE "Unknown"

\* _SECTOR_BY_TICKER.get(h["ticker"].upper(), "Unknown")
sector_of(h) ==
    IF upper(h.ticker) \in DOMAIN _SECTOR_BY_TICKER
    THEN _SECTOR_BY_TICKER[upper(h.ticker)]
    ELSE "Unknown"

\* float(quantity) * float(current_price), in mills
_current_value(holding) == holding.quantity * holding.current_price

\* the sum without "or 1.0"
total_unguarded(sum) == sum

\* "sum(...) or 1.0", in mills
total_or_one(sum) == IF sum = 0 THEN 1000 ELSE sum

\* an order that lets a later entry of equal weight pass an earlier one
stays_ahead_strictly(a, x) == a.weight_pct >= x.weight_pct

\* whether the sorted entry a stays ahead of the entry x that was loaded
\* before it: only on a larger key, the sort being stable
stays_ahead(a, x) == a.weight_pct > x.weight_pct

\* sorted(..., key=weight_pct, reverse=True): descending, equal keys keep
\* their order
RECURSIVE insert_desc(_, _)
insert_desc(x, s) ==
    IF s = <<>> THEN <<x>>
    ELSE IF stays_ahead(s[1], x)
         THEN <<s[1]>> \o insert_desc(x, Tail(s))
         ELSE <<x>> \o s

RECURSIVE sorted_desc(_)
sorted_desc(s) ==
    IF s = <<>> THEN <<>> ELSE insert_desc(Head(s), sorted_desc(Tail(s)))

\* the weight without "* 100.0": a fraction, not a percentage
weight_pct_of_fraction(v, total) == round_ratio(v, total, 100)

\* round((v / total) * 100.0, 2), in hundredths of a percent
weight_pct_of(v, total) == round_ratio(v, total, 10000)

\* position_weights[:10]
first_ten(s) == SubSeq(s, 1, IF Len(s) < 10 THEN Len(s) ELSE 10)

\* the index rounded to 2 places instead of 4
hhi_of_two_places(values, total) ==
    LET u == GCD(GCDSeq(values), total)
    IN  100 * RoundHalfEven(
            SumSeq([i \in 1..Len(values) |->
                        (values[i] \div u) * (values[i] \div u)]) * 100,
            (total \div u) * (total \div u))

\* round(sum(w * w for w in weights), 4) with w = v / total
hhi_of(values, total) ==
    LET u == GCD(GCDSeq(values), total)
    IN  RoundHalfEven(
            SumSeq([i \in 1..Len(values) |->
                        (values[i] \div u) * (values[i] \div u)]) * 10000,
            (total \div u) * (total \div u))

RECURSIVE join(_)
join(notes) ==
    IF Len(notes) = 1 THEN notes[1]
    ELSE notes[1] \o " " \o join(Tail(notes))

no_holdings_report ==
    [sector_weights      |-> [k \in {} |-> 0],
     position_weights    |-> <<>>,
     hhi                 |-> 0,
     top_position_weight |-> 0,
     num_holdings        |-> 0,
     notes               |-> "No holdings found."]

\* the top weight rounded to 1 place instead of 2
top_weight_of_one_place(values, total) ==
    10 * round_ratio(MaxSeq(values), total, 1000)

\* round(max(weights) * 100.0, 2)
top_weight_of(values, total) == round_ratio(MaxSeq(values), total, 10000)

\* the notes as one "elif" chain: the first condition met gives the note
notes_of_first_only(top_w, hhi, num_sectors) ==
    IF top_w >= 2500
    THEN <<"High single-position concentration (top holding >= 25%).">>
    ELSE IF hhi >= 1500
    THEN <<"Elevated overall concentration by HHI.">>
    ELSE IF num_sectors <= 2
    THEN <<"Limited sector diversification.">>
    ELSE <<"Diversification appears reasonable for a simple demo portfolio.">>

\* the list "notes" of assess_diversification
notes_of(top_w, hhi, num_sectors) ==
    LET notes ==
            (IF top_w >= 2500
             THEN <<"High single-position concentration (top holding >= 25%).">>
             ELSE <<>>)
            \o (IF hhi >= 1500
                THEN <<"Elevated overall concentration by HHI.">>
                ELSE <<>>)
            \o (IF num_sectors <= 2
                THEN <<"Limited sector diversification.">>
                ELSE <<>>)
    IN  IF notes = <<>>
        THEN <<"Diversification appears reasonable for a simple demo portfolio.">>
        ELSE notes

\* assess_diversification after the empty-portfolio return
diversification_report(holdings) ==
    LET values == [i \in 1..Len(holdings) |-> _current_value(holdings[i])]
        total  == total_or_one(SumSeq(values))
    IN  IF \E i \in 1..Len(holdings) :
               missing_key(holdings[i], {"quantity", "current_price",
                                         "ticker", "name"})
        THEN Raise("KeyError")
        ELSE IF total = 0 THEN Raise("ZeroDivisionError")
        ELSE IF values = <<>> THEN Raise("ValueError")
        ELSE
        LET position_weights == sorted_desc(
                [i \in 1..Len(holdings) |->
                    [ticker     |-> holdings[i].ticker,
                     name       |-> holdings[i].name,
                     weight_pct |-> weight_pct_of(values[i], total)]])
            sectors == {sector_of(holdings[i]) : i \in 1..Len(holdings)}
            sector_totals == [k \in sectors |->
                SumSeq([i \in 1..Len(holdings) |->
                    IF sector_of(holdings[i]) = k THEN values[i] ELSE 0])]
            sector_weights == [k \in sectors |->
                round_ratio(sector_totals[k], total, 10000)]
            hhi   == hhi_of(values, total)
            top_w == top_weight_of(values, total)
        IN  [sector_weights      |-> sector_weights,
             position_weights    |-> first_ten(position_weights),
             hhi                 |-> hhi,
             top_position_weight |-> top_w,
             num_holdings        |-> Len(holdings),
             notes               |->
                 join(notes_of(top_w, hhi, Cardinality(DOMAIN sector_weights)))]

\* assess_diversification without the empty-portfolio return
assess_diversification_no_return(s) ==
    LET portfolio == load_portfolio(s)
    IN  IF Raised(portfolio) THEN portfolio
        ELSE diversification_report(portfolio.holdings)

assess_diversification(s) ==
    LET portfolio == load_portfolio(s)
    IN  IF Raised(portfolio) THEN portfolio
        ELSE IF portfolio.holdings = <<>> THEN no_holdings_report
        ELSE diversification_report(portfolio.holdings)

\* ------------------------------------------------------------ assess_risk
\* the chain with ">" for ">="
top_position_step_strict(top_w) ==
    IF top_w > 4000
    THEN [add |-> 40, factors |-> <<"Very high single-position concentration (>=40%).">>]
    ELSE IF top_w > 2500
    THEN [add |-> 20, factors |-> <<"High single-position concentration (>=25%).">>]
    ELSE IF top_w > 1500
    THEN [add |-> 10, factors |-> <<"Moderate single-position concentration (>=15%).">>]
    ELSE [add |-> 0, factors |-> <<>>]

\* the chain with every branch an independent "if"
top_position_step_independent(top_w) ==
    [add |-> (IF top_w >= 4000 THEN 40 ELSE 0) + (IF top_w >= 2500 THEN 20 ELSE 0)
             + (IF top_w >= 1500 THEN 10 ELSE 0),
     factors |->
        (IF top_w >= 4000
         THEN <<"Very high single-position concentration (>=40%).">> ELSE <<>>)
        \o (IF top_w >= 2500
            THEN <<"High single-position concentration (>=25%).">> ELSE <<>>)
        \o (IF top_w >= 1500
            THEN <<"Moderate single-position concentration (>=15%).">> ELSE <<>>)]

\* the top position chain: points in tenths, and the factor
top_position_step(top_w) ==
    IF top_w >= 4000
    THEN [add |-> 40, factors |-> <<"Very high single-position concentration (>=40%).">>]
    ELSE IF top_w >= 2500
    THEN [add |-> 20, factors |-> <<"High single-position concentration (>=25%).">>]
    ELSE IF top_w >= 1500
    THEN [add |-> 10, factors |-> <<"Moderate single-position concentration (>=15%).">>]
    ELSE [add |-> 0, factors |-> <<>>]

hhi_step(hhi) ==
    IF hhi >= 2500
    THEN [add |-> 30, factors |-> <<"High overall concentration by HHI (>=0.25).">>]
    ELSE IF hhi >= 1500
    THEN [add |-> 20, factors |-> <<"Elevated concentration by HHI (>=0.15).">>]
    ELSE IF hhi >= 1000
    THEN [add |-> 10, factors |-> <<"Some concentration by HHI (>=0.10).">>]
    ELSE [add |-> 0, factors |-> <<>>]

\* the sector chain skipping a report without sectors
sector_step_nonempty(num_sectors) ==
    IF num_sectors <= 2 /\ num_sectors > 0
    THEN [add |-> 20, factors |-> <<"Limited sector diversification (<=2 sectors).">>]
    ELSE IF num_sectors = 3
    THEN [add |-> 10, factors |-> <<"Concentrated across few sectors (<=3 sectors).">>]
    ELSE [add |-> 0, factors |-> <<>>]

sector_step(num_sectors) ==
    IF num_sectors <= 2
    THEN [add |-> 20, factors |-> <<"Limited sector diversification (<=2 sectors).">>]
    ELSE IF num_sectors <= 3
    THEN [add |-> 10, factors |-> <<"Concentrated across few sectors (<=3 sectors).">>]
    ELSE [add |-> 0, factors |-> <<>>]

volatile_names == {"TSLA", "NVDA"}

\* the volatile-names check adding its point without listing the factor
volatile_step_unlisted(holdings) ==
    LET tickers == {upper(holdings[i].ticker) : i \in 1..Len(holdings)}
    IN  IF tickers \cap volatile_names # {}
        THEN [add |-> 10, factors |-> <<>>]
        ELSE [add |-> 0, factors |-> <<>>]

volatile_step(holdings) ==
    LET tickers == {upper(holdings[i].ticker) : i \in 1..Len(holdings)}
    IN  IF tickers \cap volatile_names # {}
        THEN [add |-> 10, factors |-> <<"Includes higher-volatility names (e.g., TSLA/NVDA).">>]
        ELSE [add |-> 0, factors |-> <<>>]

\* the few-holdings check with the lower bound off by one
holdings_step_above_one(num_holdings) ==
    IF num_holdings <= 4 /\ num_holdings > 1
    THEN [add |-> 10, factors |-> <<"Few holdings (<=4) increases idiosyncratic risk.">>]
    ELSE [add |-> 0, factors |-> <<>>]

holdings_step(num_holdings) ==
    IF num_holdings <= 4 /\ num_holdings > 0
    THEN [add |-> 10, factors |-> <<"Few holdings (<=4) increases idiosyncratic risk.">>]
    ELSE [add |-> 0, factors |-> <<>>]

\* score before "Clamp and label", in tenths
raw_score(d, holdings) ==
    10 + top_position_step(d.top_position_weight).add
       + hhi_step(d.hhi).add
       + sector_step(Cardinality(DOMAIN d.sector_weights)).add
       + volatile_step(holdings).add
       + holdings_step(d.num_holdings).add

\* the clamp without its upper bound
clamp_below_only(score) == IF score > 10 THEN score ELSE 10

\* max(1.0, min(10.0, score))
clamp(score) ==
    LET low == IF score < 100 THEN score ELSE 100
    IN  IF low > 10 THEN low ELSE 10

risk_label(score) ==
    IF score >= 80 THEN "High"
    ELSE IF score >= 50 THEN "Moderate"
    ELSE "Low"

\* assess_risk from the report on: scoring, second load, clamp, label
score_risk(d, portfolio) ==
    IF Raised(portfolio) THEN portfolio
    ELSE IF \E i \in 1..Len(portfolio.holdings) :
                missing_key(portfolio.holdings[i], {"ticker"})
    THEN Raise("KeyError")
    ELSE
    LET holdings == portfolio.holdings
        score    == clamp(raw_score(d, holdings))
    IN  [risk_score |-> RoundHalfEven(score * 10, 10),
         risk_level |-> risk_label(score),
         factors    |-> top_position_step(d.top_position_weight).factors
                        \o hhi_step(d.hhi).factors
                        \o sector_step(Cardinality(DOMAIN d.sector_weights)).factors
                        \o volatile_step(holdings).factors
                        \o holdings_step(d.num_holdings).factors,
         inputs     |-> [top_position_weight_pct |-> d.top_position_weight,
                         hhi          |-> d.hhi,
                         num_holdings |-> d.num_holdings,
                         num_sectors  |-> Cardinality(DOMAIN d.sector_weights)]]

\* assess_risk; s1 is the store at the load inside assess_diversification,
\* s2 the store at assess_risk's own load
assess_risk(s1, s2) ==
    LET d == assess_diversification(s1)
    IN  IF Raised(d) THEN d ELSE score_risk(d, load_portfolio(s2))

\* ------------------------------------------------------------ the machine
Init ==
    /\ agent = NoAgent
    /\ store = NoStore
    /\ call = NoCall
    /\ ret = NoRet
    /\ div = NoRet

\* the environment: another process creates, extends or removes the store
CreateStore ==
    /\ UNCHANGED agent
    /\ ~store.exists
    /\ store' = [exists |-> TRUE, parses |-> TRUE, holdings |-> <<>>]
    /\ call' = NoCall /\ ret' = NoRet /\ div' = NoRet

AppendHolding(h) ==
    /\ UNCHANGED agent
    /\ store.exists
    /\ Len(store.holdings) < MaxHoldings
    /\ IF store.holdings = <<>> THEN TRUE
       ELSE CatalogueIndex(store.holdings[Len(store.holdings)])
                <= CatalogueIndex(h)
    /\ store' = [store EXCEPT !.holdings = Append(@, h)]
    /\ call' = NoCall /\ ret' = NoRet /\ div' = NoRet

RemoveStore ==
    /\ UNCHANGED agent
    /\ store.exists
    /\ store' = NoStore
    /\ call' = NoCall /\ ret' = NoRet /\ div' = NoRet

\* the tools
\* get_all_holdings leaving an empty store file behind when there was none
GetAllHoldings_creating ==
    /\ UNCHANGED agent
    /\ call' = [op |-> "get_all_holdings", ticker |-> ""]
    /\ ret' = get_all_holdings(store)
    /\ div' = NoRet
    /\ store' = IF store.exists THEN store
                ELSE [exists |-> TRUE, parses |-> TRUE, holdings |-> <<>>]

GetAllHoldings ==
    /\ UNCHANGED agent
    /\ call' = [op |-> "get_all_holdings", ticker |-> ""]
    /\ ret' = get_all_holdings(store)
    /\ div' = NoRet
    /\ UNCHANGED store

GetHoldingByTicker(ticker) ==
    /\ UNCHANGED agent
    /\ call' = [op |-> "get_holding_by_ticker", ticker |-> ticker]
    /\ ret' = get_holding_by_ticker(store, ticker)
    /\ div' = NoRet
    /\ UNCHANGED store

GetPortfolioSummary ==
    /\ UNCHANGED agent
    /\ call' = [op |-> "get_portfolio_summary", ticker |-> ""]
    /\ ret' = get_portfolio_summary(store)
    /\ div' = NoRet
    /\ UNCHANGED store

AssessDiversification ==
    /\ UNCHANGED agent
    /\ call' = [op |-> "assess_diversification", ticker |-> ""]
    /\ ret' = assess_diversification(store)
    /\ div' = NoRet
    /\ UNCHANGED store

AssessRisk ==
    /\ UNCHANGED agent
    /\ call' = [op |-> "assess_risk", ticker |-> ""]
    /\ ret' = assess_risk(store, store)
    /\ div' = assess_diversification(store)
    /\ UNCHANGED store

Next ==
    \/ CreateStore
    \/ \E i \in 1..Len(Catalogue) : AppendHolding(Catalogue[i])
    \/ RemoveStore
    \/ GetAllHoldings
    \/ \E t \in TickerArgs : GetHoldingByTicker(t)
    \/ GetPortfolioSummary
    \/ AssessDiversification
    \/ AssessRisk

Spec == Init /\ [][Next]_vars

\* ------------------------------------------------- the scoring on its own
\* The scoring of assess_risk as a function of the report it is given:
\* the store fixes the tickers, the number of holdings and the sectors,
\* top_position_weight and hhi range over the values around the thresholds
\* that a portfolio of that many holdings can have.
TopWeights == {1499, 1500, 2499, 2500, 3999, 4000, 10000}
HhiLevels == {999, 1000, 1440, 1499, 1500, 2200, 2499, 2500, 3500, 10000}

\* some n positive weights summing to 1 have maximum tw and sum of squares
\* hh (tw in hundredths of a percent, hh in ten-thousandths)
Feasible(n, tw, hh) ==
    /\ n >= 1 /\ tw >= 1 /\ tw <= 10000
    /\ n * tw >= 10000
    /\ hh * 10000 >= tw * tw
    /\ (n - 1) * hh * 10000 >= (n - 1) * tw * tw + (10000 - tw) * (10000 - tw)
    /\ LET k == 10000 \div tw
           r == 10000 - k * tw
       IN  hh * 10000 <= k * tw * tw + r * r

Rescored(s, d) == score_risk(d, load_portfolio(s))

InitScore ==
    /\ agent = NoAgent
    /\ store = [exists |-> TRUE, parses |-> TRUE, holdings |-> <<>>]
    /\ call = [op |-> "assess_risk", ticker |-> ""]
    /\ div = assess_diversification(store)
    /\ ret = Rescored(store, div)

ScoreAppend(h) ==
    /\ UNCHANGED agent
    /\ Len(store.holdings) < MaxScoreHoldings
    /\ IF store.holdings = <<>> THEN TRUE
       ELSE CatalogueIndex(store.holdings[Len(store.holdings)])
                <= CatalogueIndex(h)
    /\ store' = [store EXCEPT !.holdings = Append(@, h)]
    /\ div' = assess_diversification(store')
    /\ ret' = Rescored(store', div')
    /\ UNCHANGED call

RescoreTop(w) ==
    /\ UNCHANGED agent
    /\ div.top_position_weight > 0
    /\ w # div.top_position_weight
    /\ Feasible(div.num_holdings, w, div.hhi)
    /\ div' = [div EXCEPT !.top_position_weight = w]
    /\ ret' = Rescored(store, div')
    /\ UNCHANGED <<store, call>>

RescoreHhi(x) ==
    /\ UNCHANGED agent
    /\ div.top_position_weight > 0
    /\ x # div.hhi
    /\ Feasible(div.num_holdings, div.top_position_weight, x)
    /\ div' = [div EXCEPT !.hhi = x]
    /\ ret' = Rescored(store, div')
    /\ UNCHANGED <<store, call>>

NextScore ==
    \/ \E i \in 1..Len(Catalogue) : ScoreAppend(Catalogue[i])
    \/ \E w \in TopWeights : RescoreTop(w)
    \/ \E x \in HhiLevels : RescoreHhi(x)

SpecScore == InitScore /\ [][NextScore]_vars

\* ------------------------------------------------- damaged store content
\* A second machine: the store is written by hand, with holdings that lack
\* a key, or with text that is not JSON; the five tools are called on it.
MaxFaultyHoldings == 2

\* the holding h written without the key k
without(h, k) == [f \in DOMAIN h \ {k} |-> h[f]]

Msft ==
    [ticker |-> "MSFT", name |-> "Microsoft",
     quantity |-> 10, purchase_price |-> 30000, current_price |-> 40000]

FaultyCatalogue ==
    << Catalogue[1], Catalogue[2],
       without(Msft, "ticker"), without(Msft, "name"),
       without(Msft, "quantity"), without(Msft, "purchase_price"),
       without(Msft, "current_price") >>

InitFaulty ==
    /\ agent = NoAgent
    /\ store = [exists |-> TRUE, parses |-> TRUE, holdings |-> <<>>]
    /\ call = NoCall
    /\ ret = NoRet
    /\ div = NoRet

WriteFaulty(h) ==
    /\ UNCHANGED agent
    /\ store.parses
    /\ Len(store.holdings) < MaxFaultyHoldings
    /\ store' = [store EXCEPT !.holdings = Append(@, h)]
    /\ call' = NoCall /\ ret' = NoRet /\ div' = NoRet

CorruptStore ==
    /\ UNCHANGED agent
    /\ store.parses
    /\ store' = [exists |-> TRUE, parses |-> FALSE, holdings |-> <<>>]
    /\ call' = NoCall /\ ret' = NoRet /\ div' = NoRet

NextFaulty ==
    \/ \E i \in 1..Len(FaultyCatalogue) : WriteFaulty(FaultyCatalogue[i])
    \/ CorruptStore
    \/ GetAllHoldings
    \/ \E ticker \in TickerArgs : GetHoldingByTicker(ticker)
    \/ GetPortfolioSummary
    \/ AssessDiversification
    \/ AssessRisk

SpecFaulty == InitFaulty /\ [][NextFaulty]_vars

\* ------------------------------------------- the store rewritten mid-call
\* A third machine: assess_risk in its two loads of the store, the one
\* inside assess_diversification() and its own load_portfolio(), with
\* another process rewriting the store at any moment.  call.seen is the
\* set of store contents that have existed since the call began.
MaxConcHoldings == 2
MaxRewrites == 1

ConcStores ==
    {NoStore} \cup
    {[exists |-> TRUE, parses |-> TRUE,
      holdings |-> [i \in DOMAIN f |-> Catalogue[f[i]]]] :
        f \in {g \in UNION {[1..n -> 1..Len(Catalogue)] :
                              n \in 0..MaxConcHoldings} :
                  \A i \in DOMAIN g : \A j \in DOMAIN g :
                      i <= j => g[i] <= g[j]}}

Pending == [pending |-> TRUE]

Running == call.op = "assess_risk" /\ ret = Pending

InitConc ==
    /\ agent = NoAgent
    /\ store = NoStore
    /\ call = NoCall
    /\ ret = NoRet
    /\ div = NoRet

\* another process replaces the store
RewriteStore(s) ==
    /\ UNCHANGED agent
    /\ s # store
    /\ store' = s
    /\ IF Running
       THEN /\ Cardinality(call.seen \cup {s}) <= MaxRewrites + 1
            /\ call' = [call EXCEPT !.seen = @ \cup {s}]
            /\ UNCHANGED <<ret, div>>
       ELSE call' = NoCall /\ ret' = NoRet /\ div' = NoRet

\* "div = assess_diversification()", which loads the store
AssessRiskDiversify ==
    /\ UNCHANGED agent
    /\ ~Running
    /\ call' = [op |-> "assess_risk", ticker |-> "", seen |-> {store}]
    /\ div' = assess_diversification(store)
    /\ ret' = Pending
    /\ UNCHANGED store

\* the rest of assess_risk, from the scoring on, which loads the store again
AssessRiskScore ==
    /\ UNCHANGED agent
    /\ Running
    /\ ret' = IF Raised(div) THEN div
              ELSE score_risk(div, load_portfolio(store))
    /\ UNCHANGED <<store, call, div>>

NextConc ==
    \/ \E s \in ConcStores : RewriteStore(s)
    \/ AssessRiskDiversify
    \/ AssessRiskScore

SpecConc == InitConc /\ [][NextConc]_vars

\* the tool of the portfolio server registered under name, called on store s
ResultOfTool(name, ticker, s) ==
    CASE name = "get_all_holdings"       -> get_all_holdings(s)
      [] name = "get_holding_by_ticker"  -> get_holding_by_ticker(s, ticker)
      [] name = "get_portfolio_summary"  -> get_portfolio_summary(s)
      [] name = "assess_diversification" -> assess_diversification(s)
      [] name = "assess_risk"            -> assess_risk(s, s)

\* --------------------------------------------------- the tool dispatcher
\* agents/integration.py (and, with the same body, portfolio_agent.py):
\* dispatch_tool_call routes a function call of the language model, by its
\* name, to a wrapper that calls a tool of an MCP server.

\* what the RSS feed may answer for a ticker: its headlines
Feeds == {<<>>, <<"headline 1", "headline 2">>}

\* arguments_json of a function call: text that json.loads rejects, or the
\* object it parses to
ArgumentsJson ==
    {[json |-> FALSE, args |-> <<>>],
     [json |-> TRUE,  args |-> <<>>],
     [json |-> TRUE,  args |-> [max_per_symbol |-> 1]],
     [json |-> TRUE,  args |-> [ticker |-> "AAPL"]]}

ToolNames ==
    {"get_portfolio", "assess_diversification", "assess_risk",
     "fetch_news_for_portfolio", "get_all_holdings", "get_holding_by_ticker",
     "get_portfolio_summary", "no_such_tool"}

\* "getattr(result, "structuredContent", {}) or {}": a tool that failed
\* answers without structured content
call_mcp_tool(result) == IF Raised(result) THEN <<>> ELSE result

tool_get_portfolio(s) == call_mcp_tool(get_all_holdings(s))

tool_assess_diversification(s) == call_mcp_tool(assess_diversification(s))

tool_assess_risk(s) == call_mcp_tool(assess_risk(s, s))

\* sorted() on the tickers of the model
TickerOrder == <<"AAPL", "GOOGL", "MSFT", "TSLA", "XYZ">>

\* news_for_portfolio of the news server on the snapshot it is handed
news_for_portfolio(portfolio, max_per_symbol, feed) ==
    LET holdings == IF "holdings" \in DOMAIN portfolio
                    THEN portfolio.holdings ELSE <<>>
        found    == {upper(holdings[i].ticker) : i \in 1..Len(holdings)}
        tickers  == SelectSeq(TickerOrder, LAMBDA t : t \in found)
    IN  [tickers |-> tickers,
         news    |-> [t \in found |->
                         SubSeq(feed, 1, IF Len(feed) < max_per_symbol
                                         THEN Len(feed) ELSE max_per_symbol)]]

tool_fetch_news_for_portfolio(s, max_per_symbol, feed) ==
    call_mcp_tool(news_for_portfolio(tool_get_portfolio(s), max_per_symbol, feed))

unknown_tool(name) == [error |-> "Unknown tool: " \o name]

dispatch_tool_call(name, arguments_json, s, feed) ==
    LET args == IF arguments_json.json THEN arguments_json.args ELSE <<>>
    IN  IF name = "get_portfolio" THEN tool_get_portfolio(s)
        ELSE IF name = "assess_diversification"
        THEN tool_assess_diversification(s)
        ELSE IF name = "assess_risk" THEN tool_assess_risk(s)
        ELSE IF name = "fetch_news_for_portfolio"
        THEN tool_fetch_news_for_portfolio(
                 s,
                 IF "max_per_symbol" \in DOMAIN args
                 THEN args.max_per_symbol ELSE 3,
                 feed)
        ELSE unknown_tool(name)

InitDispatch ==
    /\ agent = NoAgent
    /\ store = NoStore
    /\ call = NoCall
    /\ ret = NoRet
    /\ div = NoRet

DispatchToolCall(name, arguments_json, feed) ==
    /\ UNCHANGED agent
    /\ call' = [op |-> "dispatch_tool_call", ticker |-> "",
                name |-> name, arguments |-> arguments_json]
    /\ ret' = dispatch_tool_call(name, arguments_json, store, feed)
    /\ div' = NoRet
    /\ UNCHANGED store

NextDispatch ==
    \/ \E s \in ConcStores : RewriteStore(s)
    \/ \E name \in ToolNames : \E arguments_json \in ArgumentsJson :
           \E feed \in Feeds : DispatchToolCall(name, arguments_json, feed)

SpecDispatch == InitDispatch /\ [][NextDispatch]_vars

\* ---------------------------------------------------------- the chat loops
\* agents/run_agent.py main() and client.py main() with chat_with_agent():
\* one step is one pass of the "while True" loop, with the user's input, the
\* language model's reply and the RSS feed chosen by the environment.
\* agent.messages is the history kept, agent.before the history when the
\* pass began, agent.input the line read, agent.first and agent.followup the
\* histories sent with the two completion requests of the pass (NoRequest
\* when the request was not made), agent.tool_calls the tool calls of the
\* first reply.
MaxMessages == 4
MaxToolCalls == 2

UserInputs == {"", "  ", "hello", "QUIT"}

\* str.strip() and str.lower() on the inputs of the model
strip(line) == IF line = "  " THEN "" ELSE line
lower(line) == IF line = "QUIT" THEN "quit" ELSE line

ToolCalls ==
    {[id |-> "call_1", name |-> "get_portfolio",
      arguments |-> [json |-> TRUE, args |-> <<>>]],
     [id |-> "call_2", name |-> "get_holding_by_ticker",
      arguments |-> [json |-> TRUE, args |-> [ticker |-> "AAPL"]]],
     [id |-> "call_3", name |-> "assess_risk",
      arguments |-> [json |-> FALSE, args |-> <<>>]]}

\* msg.tool_calls of a reply: none, or up to MaxToolCalls distinct calls
Replies ==
    {r \in UNION {[1..n -> ToolCalls] : n \in 0..MaxToolCalls} :
        \A i \in DOMAIN r : \A j \in DOMAIN r : r[i] = r[j] => i = j}

NoRequest == <<[role |-> "none"]>>

\* json.dumps of a tool result
json_dumps(result) == [json |-> result]

system_message == [role |-> "system", content |-> "SYSTEM_PROMPT"]

user_message(user) == [role |-> "user", content |-> user]

\* the assistant stub that records the tool calls of the reply
assistant_message(tool_calls) ==
    [role |-> "assistant", content |-> "",
     tool_calls |-> [i \in 1..Len(tool_calls) |->
        [id |-> tool_calls[i].id, type |-> "function",
         function |-> [name |-> tool_calls[i].name,
                       arguments |-> tool_calls[i].arguments]]]]

tool_message(tc, content) ==
    [role |-> "tool", tool_call_id |-> tc.id, content |-> content]

\* the tool messages of run_agent.py, with the results popped from the
\* end of the list
tool_messages_reversed(tool_calls, s, feed) ==
    [i \in 1..Len(tool_calls) |->
        tool_message(tool_calls[Len(tool_calls) + 1 - i],
            json_dumps(dispatch_tool_call(
                tool_calls[Len(tool_calls) + 1 - i].name,
                tool_calls[Len(tool_calls) + 1 - i].arguments, s, feed)))]

\* "for tc in tool_calls: ... messages.append({"role": "tool", ...})" of
\* run_agent.py
tool_messages(tool_calls, s, feed) ==
    [i \in 1..Len(tool_calls) |->
        tool_message(tool_calls[i],
            json_dumps(dispatch_tool_call(tool_calls[i].name,
                                          tool_calls[i].arguments, s, feed)))]

InitChat ==
    /\ store = NoStore
    /\ call = NoCall
    /\ ret = NoRet
    /\ div = NoRet
    /\ \E script \in {"run_agent", "client"} :
           agent = [script |-> script, pc |-> "input",
                    messages |-> IF script = "run_agent"
                                 THEN <<system_message>> ELSE <<>>,
                    before |-> <<>>, input |-> "hello",
                    first |-> NoRequest, followup |-> NoRequest,
                    tool_calls |-> <<>>]

\* one pass of the loop of run_agent.py
RunAgentTurn(line, tool_calls, feed) ==
    /\ agent.script = "run_agent" /\ agent.pc = "input"
    /\ Len(agent.messages) < MaxMessages
    /\ LET user     == strip(line)
           asked    == Append(agent.messages, user_message(user))
           answered == asked \o <<assistant_message(tool_calls)>>
                             \o tool_messages(tool_calls, store, feed)
           idle     == [agent EXCEPT !.before = agent.messages,
                                     !.input = line,
                                     !.first = NoRequest,
                                     !.followup = NoRequest,
                                     !.tool_calls = <<>>]
       IN  agent' =
             IF lower(user) \in {"quit", "exit", "q"}
             THEN [idle EXCEPT !.pc = "done"]
             ELSE IF user = "" THEN idle
             ELSE IF tool_calls = <<>>
             THEN [idle EXCEPT !.messages = asked, !.first = asked]
             ELSE [idle EXCEPT !.messages = answered, !.first = asked,
                               !.followup = answered,
                               !.tool_calls = tool_calls]
    /\ UNCHANGED <<store, call, ret, div>>

\* session.call_tool(func_name, func_args) of client.py and the content it
\* puts in the tool message
client_tool_content(tc, s) ==
    LET result ==
            IF tc.name \in {"get_all_holdings", "get_portfolio_summary",
                            "assess_diversification", "assess_risk"}
            THEN call_mcp_tool(ResultOfTool(tc.name, "", s))
            ELSE IF tc.name = "get_holding_by_ticker"
                    /\ "ticker" \in DOMAIN tc.arguments.args
            THEN call_mcp_tool(
                     ResultOfTool(tc.name, tc.arguments.args.ticker, s))
            ELSE <<>>
    IN  IF result = <<>> THEN "Tool executed successfully"
        ELSE json_dumps(result)

\* one pass of the loop of client.py main(), chat_with_agent() included
ClientTurn(line, tool_calls) ==
    /\ agent.script = "client" /\ agent.pc = "input"
    /\ LET query    == strip(line)
           asked    == <<system_message, user_message(query)>>
           answered == asked \o <<assistant_message(tool_calls)>>
                             \o [i \in 1..Len(tool_calls) |->
                                    tool_message(tool_calls[i],
                                        client_tool_content(tool_calls[i],
                                                            store))]
           idle     == [agent EXCEPT !.before = agent.messages,
                                     !.input = line,
                                     !.first = NoRequest,
                                     !.followup = NoRequest,
                                     !.tool_calls = <<>>]
       IN  agent' =
             IF lower(query) \in {"quit", "exit", "q"}
             THEN [idle EXCEPT !.pc = "done"]
             ELSE IF query = "" THEN idle
             ELSE IF tool_calls = <<>>
             THEN [idle EXCEPT !.first = asked]
             ELSE IF \E i \in 1..Len(tool_calls) :
                         ~tool_calls[i].arguments.json
             THEN [idle EXCEPT !.first = asked, !.tool_calls = tool_calls]
             ELSE [idle EXCEPT !.first = asked, !.followup = answered,
                               !.tool_calls = tool_calls]
    /\ UNCHANGED <<store, call, ret, div>>

ChatRewriteStore(s) ==
    /\ agent.pc = "input"
    /\ RewriteStore(s)

NextChat ==
    \/ \E line \in UserInputs : \E tool_calls \in Replies :
           \E feed \in Feeds : RunAgentTurn(line, tool_calls, feed)
    \/ \E line \in UserInputs : \E tool_calls \in Replies :
           ClientTurn(line, tool_calls)
    \/ \E s \in ConcStores : ChatRewriteStore(s)

SpecChat == InitChat /\ [][NextChat]_vars

\* ------------------------------------------------- the assistant-run client
\* portfolio_agent.py main(): a user turn creates a run at the remote
\* service and polls it.  agent.remote is the status of the run at the
\* service, agent.status the client's copy (run.status), agent.required the
\* tool calls the service asks for, agent.answered and agent.outputs the
\* tool calls and the tool_outputs of the last submitted batch, agent.tick
\* the parity of the number of polls (the log line of each poll).
RunStatuses ==
    {"queued", "in_progress", "requires_action", "completed", "failed",
     "cancelled", "expired", "incomplete"}

\* the statuses the remote service never leaves
FinalStatuses == {"completed", "failed", "cancelled", "expired", "incomplete"}

\* "while run.status not in ["completed", "failed"]"
loop_exits(status) == status \in {"completed", "failed"}

\* the tool_outputs built by the "for tool_call in ..." loop
tool_outputs(tool_calls, s, feed) ==
    [i \in 1..Len(tool_calls) |->
        [tool_call_id |-> tool_calls[i].id,
         output |-> json_dumps(dispatch_tool_call(tool_calls[i].name,
                                   tool_calls[i].arguments, s, feed))]]

InitRun ==
    /\ store = NoStore
    /\ call = NoCall
    /\ ret = NoRet
    /\ div = NoRet
    /\ agent = [pc |-> "input", remote |-> "none", status |-> "none",
                required |-> <<>>, answered |-> <<>>, outputs |-> <<>>,
                tick |-> FALSE]

\* input(), messages.create and runs.create; an API call that raises ends
\* the program ("except Exception: ... break")
StartRun(line, raises) ==
    /\ agent.pc = "input"
    /\ agent' =
         IF lower(line) = "quit" \/ raises
         THEN [agent EXCEPT !.pc = "done"]
         ELSE [agent EXCEPT !.pc = "polling", !.remote = "queued",
                            !.status = "queued", !.required = <<>>,
                            !.answered = <<>>, !.outputs = <<>>]
    /\ UNCHANGED <<store, call, ret, div>>

\* the remote service moves the run on
RemoteStep(status, tool_calls) ==
    /\ agent.pc \in {"polling", "submitting"}
    /\ agent.remote \notin FinalStatuses
    /\ status # agent.remote
    /\ CASE agent.remote = "queued" ->
                status \in {"in_progress", "cancelled", "expired"}
         [] agent.remote = "in_progress" ->
                status \in {"requires_action"} \cup FinalStatuses
         [] agent.remote = "requires_action" ->
                status \in {"cancelled", "expired"}
    /\ (status = "requires_action") = (tool_calls # <<>>)
    /\ agent' = [agent EXCEPT !.remote = status, !.required = tool_calls]
    /\ UNCHANGED <<store, call, ret, div>>

\* one pass of the polling loop up to the dispatch: sleep, runs.retrieve,
\* and the loop test when the run does not require action
Poll(raises) ==
    /\ agent.pc = "polling"
    /\ agent' =
         IF raises THEN [agent EXCEPT !.pc = "done"]
         ELSE IF agent.remote = "requires_action"
         THEN [agent EXCEPT !.status = agent.remote, !.tick = ~@,
                            !.answered = agent.required,
                            !.pc = "submitting"]
         ELSE [agent EXCEPT !.status = agent.remote, !.tick = ~@,
                            !.pc = IF loop_exits(agent.remote)
                                   THEN "input" ELSE "polling"]
    /\ UNCHANGED <<store, call, ret, div>>

\* the rest of the pass: every tool call dispatched, the batch submitted;
\* the service refuses outputs for a run that left requires_action
Submit(feed) ==
    /\ agent.pc = "submitting"
    /\ agent' =
         IF agent.remote # "requires_action"
         THEN [agent EXCEPT !.pc = "done"]
         ELSE [agent EXCEPT !.outputs =
                               tool_outputs(agent.answered, store, feed),
                            !.required = <<>>,
                            !.remote = "queued", !.status = "queued",
                            !.pc = "polling"]
    /\ UNCHANGED <<store, call, ret, div>>

NextRun ==
    \/ \E line \in UserInputs : \E raises \in BOOLEAN : StartRun(line, raises)
    \/ \E status \in RunStatuses : \E tool_calls \in Replies :
           RemoteStep(status, tool_calls)
    \/ \E raises \in BOOLEAN : Poll(raises)
    \/ \E feed \in Feeds : Submit(feed)

\* the client keeps running: a poll or a submission that can be made is
\* made
SpecRun ==
    /\ InitRun /\ [][NextRun]_vars
    /\ WF_vars(\E raises \in BOOLEAN : Poll(raises))
    /\ WF_vars(\E feed \in Feeds : Submit(feed))

\* ================================================================ claims
Returned(op) == call.op = op /\ ~Raised(ret)

Holdings == store.holdings

\* the increments of the scoring table, in tenths, written from the table
TableTop(w) == IF w >= 4000 THEN 40 ELSE IF w >= 2500 THEN 20
               ELSE IF w >= 1500 THEN 10 ELSE 0
TableHhi(x) == IF x >= 2500 THEN 30 ELSE IF x >= 1500 THEN 20
               ELSE IF x >= 1000 THEN 10 ELSE 0
TableSectors(n) == IF n <= 2 THEN 20 ELSE IF n <= 3 THEN 10 ELSE 0
TableVolatile(hs) ==
    IF \E i \in 1..Len(hs) : upper(hs[i].ticker) \in {"TSLA", "NVDA"}
    THEN 10 ELSE 0
TableFew(n) == IF 0 < n /\ n <= 4 THEN 10 ELSE 0
TableOthers(inputs, hs) ==
    TableHhi(inputs.hhi) + TableSectors(inputs.num_sectors)
    + TableVolatile(hs) + TableFew(inputs.num_holdings)
TableSum(inputs, hs) ==
    10 + TableTop(inputs.top_position_weight_pct) + TableOthers(inputs, hs)
Clamped(x) == IF x < 10 THEN 10 ELSE IF x > 100 THEN 100 ELSE x

\* C1: whenever assess_risk has returned, the score it computed before
\* clamping is 1.0 plus one table increment per category (first matching
\* branch only), and the returned risk_score is that sum clamped to [1, 10].
C1_ScoreIsTableSum ==
    call.op = "assess_risk" =>
        /\ ~Raised(ret)
        /\ raw_score(div, Holdings) = TableSum(ret.inputs, Holdings)
        /\ ret.risk_score = Clamped(TableSum(ret.inputs, Holdings))

\* assess_risk returned for a portfolio in the middle top-weight band, with
\* three sectors, a volatile name and few holdings
C1_Witness ==
    /\ Returned("assess_risk")
    /\ ret.inputs.top_position_weight_pct >= 2500
    /\ ret.inputs.top_position_weight_pct < 4000
    /\ ret.inputs.num_sectors = 3
    /\ ret.inputs.num_holdings = 4
    /\ ret.risk_score = 90

\* C2: whenever assess_risk has returned (empty portfolio and missing store
\* included), 1.0 <= risk_score <= 10.0 and the level is High exactly from
\* 8, Moderate exactly in [5, 8) and Low exactly below 5.
C2_ScoreRangeAndLevel ==
    call.op = "assess_risk" =>
        /\ ~Raised(ret)
        /\ ret.risk_score >= 10 /\ ret.risk_score <= 100
        /\ ret.risk_level = "High" <=> ret.risk_score >= 80
        /\ ret.risk_level = "Moderate" <=>
               (ret.risk_score >= 50 /\ ret.risk_score < 80)
        /\ ret.risk_level = "Low" <=> ret.risk_score < 50

\* assess_risk returned a score that the clamp cut down to 10.0
C2_Witness ==
    /\ Returned("assess_risk")
    /\ raw_score(div, Holdings) > 100
    /\ ret.risk_score = 100

OnlyApple == store = [exists |-> TRUE, parses |-> TRUE, holdings |-> <<Catalogue[1]>>]

InSeq(x, s) == \E i \in 1..Len(s) : s[i] = x

\* C3 as stated: for the single AAPL position (10 bought at 150, now 180)
\* assess_risk reports the very-high concentration, limited-sector and
\* few-holdings factors and returns 1 + 4 + 2 + 1 = 8, "High".
C3_Original ==
    (OnlyApple /\ call.op = "assess_risk") =>
        /\ ~Raised(ret)
        /\ InSeq("Very high single-position concentration (>=40%).", ret.factors)
        /\ InSeq("Limited sector diversification (<=2 sectors).", ret.factors)
        /\ InSeq("Few holdings (<=4) increases idiosyncratic risk.", ret.factors)
        /\ ret.risk_score = 80
        /\ ret.risk_level = "High"

\* C3 amended: for the single AAPL position assess_risk reports four
\* factors, the three above and the high-HHI factor (hhi = 1.0 >= 0.25),
\* computes 1 + 4 + 3 + 2 + 1 = 11 and returns 10.0, "High".
C3_SingleApple ==
    (OnlyApple /\ call.op = "assess_risk") =>
        /\ ~Raised(ret)
        /\ ret.factors =
             << "Very high single-position concentration (>=40%).",
                "High overall concentration by HHI (>=0.25).",
                "Limited sector diversification (<=2 sectors).",
                "Few holdings (<=4) increases idiosyncratic risk." >>
        /\ raw_score(div, Holdings) = 110
        /\ ret.risk_score = 100
        /\ ret.risk_level = "High"

C3_Witness == OnlyApple /\ Returned("assess_risk") /\ ret.inputs.hhi = 10000

\* a scoring step that raises top_position_weight across a threshold of the
\* table and changes nothing else
C4_Crossing ==
    /\ store' = store
    /\ div'.hhi = div.hhi
    /\ div'.sector_weights = div.sector_weights
    /\ div'.num_holdings = div.num_holdings
    /\ div.top_position_weight < div'.top_position_weight
    /\ TableTop(div.top_position_weight) # TableTop(div'.top_position_weight)

C4_TableStep ==
    TableTop(div'.top_position_weight) - TableTop(div.top_position_weight)

\* C4 as stated: with hhi, sectors, volatile names and num_holdings fixed,
\* raising top_position_weight across a threshold strictly increases the
\* returned risk_score, by exactly the difference of the table increments.
C4_Original ==
    [][C4_Crossing =>
        /\ ret'.risk_score > ret.risk_score
        /\ ret'.risk_score - ret.risk_score = C4_TableStep]_vars

\* C4 amended: such a step never lowers risk_score; it raises it by exactly
\* the difference of the table increments whenever the sum after the step
\* is at most 10, and otherwise the result is 10.0 and the rise is smaller.
C4_CrossingUpToClamp ==
    [][C4_Crossing =>
        /\ ret'.risk_score >= ret.risk_score
        /\ TableSum(ret'.inputs, Holdings) <= 100 =>
               /\ ret'.risk_score > ret.risk_score
               /\ ret'.risk_score - ret.risk_score = C4_TableStep
        /\ TableSum(ret'.inputs, Holdings) > 100 =>
               /\ ret'.risk_score = 100
               /\ ret'.risk_score - ret.risk_score < C4_TableStep]_vars

\* a report at the 40% threshold whose sum stays below the clamp
C4_Witness ==
    /\ Returned("assess_risk")
    /\ div.top_position_weight = 4000
    /\ div.hhi = 3500
    /\ ret.inputs.top_position_weight_pct = 4000
    /\ ret.risk_score = 90

\* the current value of every holding of the store, in mills
Values == [i \in 1..Len(Holdings) |-> Holdings[i].quantity * Holdings[i].current_price]

WeightSum(report) ==
    SumSeq([i \in 1..Len(report.position_weights) |->
                report.position_weights[i].weight_pct])

WithinOfHundred(report) ==
    /\ WeightSum(report) - 10000 <= 10 * Len(Holdings)
    /\ 10000 - WeightSum(report) <= 10 * Len(Holdings)

\* C5 as stated: for every non-empty portfolio of positive total value,
\* whatever the number of holdings, the weight_pct of the returned
\* position_weights sum to 100 within 0.1 per holding.
C5_Original ==
    (call.op = "assess_diversification" /\ Holdings # <<>> /\ SumSeq(Values) > 0)
        => ~Raised(ret) /\ WithinOfHundred(ret)

\* C5 amended: that holds for portfolios of at most 10 holdings; with more
\* holdings only the 10 largest weights are returned and their sum is only
\* bounded above, by 100 plus the tolerance.
C5_WeightsOfUpToTen ==
    (call.op = "assess_diversification" /\ Holdings # <<>> /\ SumSeq(Values) > 0)
        => /\ ~Raised(ret)
           /\ Len(Holdings) <= 10 => WithinOfHundred(ret)
           /\ WeightSum(ret) - 10000 <= 10 * Len(Holdings)

\* ten holdings, all listed, whose rounded weights do not sum to 100 exactly
C5_Witness ==
    /\ Returned("assess_diversification")
    /\ Len(Holdings) = 10
    /\ Len(ret.position_weights) = 10
    /\ SumSeq(Values) > 0
    /\ WeightSum(ret) # 10000

AllEqualValues == \A i, j \in 1..Len(Holdings) : Values[i] = Values[j]

\* C6 as stated: n holdings of one same current value give hhi = 1/n rounded
\* to 4 places, and every single-holding portfolio gives hhi = 1.0.
C6_Original ==
    (call.op = "assess_diversification" /\ Holdings # <<>> /\ AllEqualValues)
        => /\ ~Raised(ret)
           /\ ret.hhi = RoundHalfEven(10000, Len(Holdings))
           /\ Len(Holdings) = 1 => ret.hhi = 10000

\* C6 amended: n holdings of one same positive current value give hhi = 1/n
\* rounded to 4 places, and a single holding of positive value gives 1.0;
\* when the common value is 0 the index is 0.0.
C6_EqualPositiveValues ==
    (call.op = "assess_diversification" /\ Holdings # <<>> /\ AllEqualValues)
        => /\ ~Raised(ret)
           /\ Values[1] > 0 => ret.hhi = RoundHalfEven(10000, Len(Holdings))
           /\ (Values[1] > 0 /\ Len(Holdings) = 1) => ret.hhi = 10000
           /\ Values[1] = 0 => ret.hhi = 0

\* three holdings of the same positive value under two tickers
C6_Witness ==
    /\ Returned("assess_diversification")
    /\ Len(Holdings) = 3
    /\ AllEqualValues /\ Values[1] > 0
    /\ Holdings[1].ticker # Holdings[3].ticker
    /\ ret.hhi = 3333

\* C7: with no holdings in the snapshot, assess_diversification returns
\* exactly the neutral report and the weight computation is not entered
\* (entering it would fail on the maximum of no weights).
C7_EmptyReport ==
    (call.op = "assess_diversification" /\ Holdings = <<>>)
        => /\ ~Raised(ret)
           /\ DOMAIN ret = {"sector_weights", "position_weights", "hhi",
                            "top_position_weight", "num_holdings", "notes"}
           /\ DOMAIN ret.sector_weights = {}
           /\ ret.position_weights = <<>>
           /\ ret.hhi = 0
           /\ ret.top_position_weight = 0
           /\ ret.num_holdings = 0
           /\ ret.notes = "No holdings found."

\* the store exists, lists no holding, and assess_diversification returned
C7_Witness ==
    /\ store.exists /\ Holdings = <<>>
    /\ Returned("assess_diversification")
    /\ ret.num_holdings = 0

ZeroSummary(s) ==
    /\ s.total_holdings = 0
    /\ s.total_portfolio_value = 0
    /\ s.total_portfolio_cost = 0
    /\ s.overall_profit_loss = 0

\* C8: while the store does not exist no tool fails: get_all_holdings
\* returns no holdings and a zero summary, get_portfolio_summary zero totals
\* and percentage, get_holding_by_ticker the not-found payload, and
\* assess_diversification and assess_risk a normal report.
C8_MissingStore ==
    (~store.exists /\ call.op # "none") =>
        /\ ~Raised(ret)
        /\ call.op = "get_all_holdings" =>
               ret.holdings = <<>> /\ ZeroSummary(ret.summary)
        /\ call.op = "get_portfolio_summary" =>
               ZeroSummary(ret) /\ ret.overall_profit_loss_pct = 0
        /\ call.op = "get_holding_by_ticker" =>
               ret = [error |-> "Holding with ticker '" \o call.ticker
                                    \o "' not found"]
        /\ call.op = "assess_diversification" =>
               ret.num_holdings = 0 /\ ret.notes = "No holdings found."
        /\ call.op = "assess_risk" =>
               /\ ret.inputs.num_holdings = 0
               /\ ret.risk_level \in {"Low", "Moderate", "High"}

\* the store is missing and get_portfolio_summary returned
C8_Witness ==
    /\ ~store.exists
    /\ Returned("get_portfolio_summary")
    /\ ret.total_holdings = 0

ZeroCost(h) == h.purchase_price = 0 \/ h.quantity = 0

TotalCost == SumSeq([i \in 1..Len(Holdings) |->
                        Holdings[i].quantity * Holdings[i].purchase_price])

\* C9: get_all_holdings and get_holding_by_ticker never fail on a holding
\* whose purchase_price or quantity is 0 and report profit_loss_pct = 0 for
\* it; get_portfolio_summary does not fail and reports
\* overall_profit_loss_pct = 0 when the total cost is 0.
C9_ZeroCost ==
    /\ call.op = "get_all_holdings" =>
           /\ ~Raised(ret)
           /\ \A i \in 1..Len(Holdings) :
                  ZeroCost(Holdings[i]) => ret.holdings[i].profit_loss_pct = 0
    /\ call.op = "get_holding_by_ticker" =>
           /\ ~Raised(ret)
           /\ ("error" \notin DOMAIN ret /\ ZeroCost(ret)) =>
                  ret.profit_loss_pct = 0
    /\ call.op = "get_portfolio_summary" =>
           /\ ~Raised(ret)
           /\ TotalCost = 0 => ret.overall_profit_loss_pct = 0

\* get_holding_by_ticker returned a holding bought for nothing, found by a
\* ticker in another case
C9_Witness ==
    /\ Returned("get_holding_by_ticker")
    /\ "error" \notin DOMAIN ret
    /\ ret.purchase_price = 0 /\ ret.quantity > 0
    /\ ret.ticker # call.ticker
    /\ ret.profit_loss_pct = 0

SumRounded(field) ==
    SumSeq([i \in 1..Len(Holdings) |->
        round2(Holdings[i].quantity * Holdings[i][field])])

\* C10: the totals of get_portfolio_summary are the sums of the per-holding
\* values after each was rounded to 2 places (value, cost, and profit or
\* loss), not the rounding of the sum of the unrounded values.
C10_SumOfRounded ==
    call.op = "get_portfolio_summary" =>
        /\ ~Raised(ret)
        /\ ret.total_portfolio_value = SumRounded("current_price")
        /\ ret.total_portfolio_cost = SumRounded("purchase_price")
        /\ ret.overall_profit_loss =
               SumSeq([i \in 1..Len(Holdings) |->
                   round2(Holdings[i].quantity * Holdings[i].current_price
                          - Holdings[i].quantity * Holdings[i].purchase_price)])

AllHoldingsTotals(r) ==
    <<r.total_holdings, r.total_portfolio_value,
      r.total_portfolio_cost, r.overall_profit_loss>>

\* C11: on every store the summary block of get_all_holdings and the record
\* of get_portfolio_summary give the same total_holdings,
\* total_portfolio_value, total_portfolio_cost and overall_profit_loss, and
\* differ only by the key overall_profit_loss_pct, which get_portfolio_summary
\* alone has.
C11_SummariesAgree ==
    /\ call.op = "get_portfolio_summary" =>
           /\ ~Raised(ret) /\ ~Raised(get_all_holdings(store))
           /\ AllHoldingsTotals(ret)
                  = AllHoldingsTotals(get_all_holdings(store).summary)
           /\ DOMAIN ret = DOMAIN get_all_holdings(store).summary
                               \cup {"overall_profit_loss_pct"}
    /\ call.op = "get_all_holdings" =>
           /\ ~Raised(ret) /\ ~Raised(get_portfolio_summary(store))
           /\ AllHoldingsTotals(ret.summary)
                  = AllHoldingsTotals(get_portfolio_summary(store))
           /\ "overall_profit_loss_pct" \notin DOMAIN ret.summary

\* the tickers of the model in lower case
Lower(t) ==
    CASE t = "AAPL"  -> "aapl"
      [] t = "TSLA"  -> "tsla"
      [] t = "XYZ"   -> "xyz"
      [] t = "GOOGL" -> "googl"
      [] t = "MSFT"  -> "msft"
      [] OTHER       -> t

SameIgnoringCase(a, b) == Lower(a) = Lower(b)

Matching == {i \in 1..Len(Holdings) :
                SameIgnoringCase(Holdings[i].ticker, call.ticker)}

\* C12: get_holding_by_ticker(t) never fails; it returns a holding of the
\* store with its derived fields, and no 'error' key, exactly when some
\* holding's ticker equals t ignoring letter case, and it returns the payload
\* [error |-> "Holding with ticker 't' not found"] exactly when none does.
C12_TickerLookup ==
    call.op = "get_holding_by_ticker" =>
        /\ ~Raised(ret)
        /\ Matching # {} =>
               /\ DOMAIN ret = DOMAIN Catalogue[1] \cup
                      {"total_value", "total_cost", "profit_loss",
                       "profit_loss_pct"}
               /\ \E i \in Matching :
                      \A k \in DOMAIN Holdings[i] : ret[k] = Holdings[i][k]
        /\ Matching = {} =>
               ret = [error |-> "Holding with ticker '" \o call.ticker
                                    \o "' not found"]
        /\ "error" \in DOMAIN ret <=> Matching = {}

\* "xyz" was asked for and the holding stored as "XYZ" came back, and
\* the store also holds other tickers
C12_Witness ==
    /\ Returned("get_holding_by_ticker")
    /\ call.ticker = "xyz"
    /\ "error" \notin DOMAIN ret
    /\ ret.ticker = "XYZ"
    /\ Holdings[1].ticker = "AAPL"

AllZeroValues == \A i \in 1..Len(Holdings) : Values[i] = 0

\* C13: on a store with holdings that are all worth 0,
\* assess_diversification does not fail and every position weight, every
\* sector weight, hhi and top_position_weight are 0; as soon as one holding
\* is worth something the divisor is the true total.
C13_ZeroTotal ==
    (call.op = "assess_diversification" /\ Holdings # <<>>) =>
        /\ ~Raised(ret)
        /\ AllZeroValues =>
               /\ Len(ret.position_weights) > 0
               /\ \A i \in 1..Len(ret.position_weights) :
                      ret.position_weights[i].weight_pct = 0
               /\ DOMAIN ret.sector_weights # {}
               /\ \A k \in DOMAIN ret.sector_weights :
                      ret.sector_weights[k] = 0
               /\ ret.hhi = 0
               /\ ret.top_position_weight = 0
        /\ ~AllZeroValues =>
               ret.top_position_weight =
                   round_ratio(MaxSeq(Values), SumSeq(Values), 10000)

\* three holdings of quantity 0 and assess_diversification returned
C13_Witness ==
    /\ Returned("assess_diversification")
    /\ Len(Holdings) = 3
    /\ AllZeroValues
    /\ ret.num_holdings = 3
    /\ ret.sector_weights["Unknown"] = 0

\* the divisor of the weights: the total value, or 1.0 when that is 0
Divisor == IF SumSeq(Values) = 0 THEN 1000 ELSE SumSeq(Values)

WeightOf(i) == round_ratio(Values[i], Divisor, 10000)

\* the place of holding i in a stable descending order of the weights
Rank(i) ==
    1 + Cardinality({j \in 1..Len(Holdings) : WeightOf(j) > WeightOf(i)})
      + Cardinality({j \in 1..(i - 1) : WeightOf(j) = WeightOf(i)})

\* C14: position_weights of assess_diversification has min(10, number of
\* holdings) entries in non-increasing order of weight_pct; the entry at
\* place k is the holding with k - 1 holdings ahead of it, those being the
\* holdings of larger weight and the holdings of equal weight loaded before
\* it, so the list holds the largest weights and equal weights keep the
\* order of the snapshot.
C14_RankedTopTen ==
    call.op = "assess_diversification" =>
        /\ ~Raised(ret)
        /\ Len(ret.position_weights)
               = IF Len(Holdings) < 10 THEN Len(Holdings) ELSE 10
        /\ \A i, j \in 1..Len(ret.position_weights) :
               i < j => ret.position_weights[i].weight_pct
                            >= ret.position_weights[j].weight_pct
        /\ \A i \in 1..Len(Holdings) :
               Rank(i) <= 10 =>
                   ret.position_weights[Rank(i)] =
                       [ticker     |-> Holdings[i].ticker,
                        name       |-> Holdings[i].name,
                        weight_pct |-> WeightOf(i)]

\* eleven holdings, AAPL lots loaded before tsla lots of the same weight
\* and a smaller lot after them: the list is cut to 10 and keeps AAPL first
C14_Witness ==
    /\ Returned("assess_diversification")
    /\ Len(Holdings) = 11
    /\ Len(ret.position_weights) = 10
    /\ ret.position_weights[1].ticker = "AAPL"
    /\ \E k \in 2..9 :
           /\ ret.position_weights[k].ticker = "tsla"
           /\ ret.position_weights[k].weight_pct
                  = ret.position_weights[1].weight_pct
           /\ ret.position_weights[k + 1].weight_pct
                  < ret.position_weights[k].weight_pct

\* the sector of each ticker of the model, read off the table by hand
SectorByHand(t) ==
    CASE t \in {"AAPL", "aapl", "MSFT"} -> "Technology"
      [] t \in {"TSLA", "tsla"}         -> "Consumer Discretionary"
      [] t = "GOOGL"                    -> "Communication Services"
      [] OTHER                          -> "Unknown"

SectorValue(k) ==
    SumSeq([i \in 1..Len(Holdings) |->
               IF SectorByHand(Holdings[i].ticker) = k THEN Values[i] ELSE 0])

\* C15: in the report of assess_diversification the sectors listed are
\* exactly the sectors of the holdings (table lookup of the uppercased
\* ticker, 'Unknown' when the table lacks it), each holding counting in
\* that one sector, and each sector's weight is the summed value of its
\* holdings as a percent of the total value.
C15_SectorWeights ==
    call.op = "assess_diversification" =>
        /\ ~Raised(ret)
        /\ DOMAIN ret.sector_weights
               = {SectorByHand(Holdings[i].ticker) : i \in 1..Len(Holdings)}
        /\ \A k \in DOMAIN ret.sector_weights :
               ret.sector_weights[k] = round_ratio(SectorValue(k), Divisor, 10000)

\* a lower-case "aapl" lot with no "AAPL" lot beside it is counted under
\* Technology, next to a holding of unknown sector
C15_Witness ==
    /\ Returned("assess_diversification")
    /\ \E i \in 1..Len(Holdings) : Holdings[i].ticker = "aapl"
    /\ \A i \in 1..Len(Holdings) : Holdings[i].ticker # "AAPL"
    /\ \E i \in 1..Len(Holdings) : Holdings[i].ticker = "XYZ"
    /\ DOMAIN ret.sector_weights = {"Technology", "Unknown"}
    /\ ret.sector_weights["Technology"] = 10000

NoteConcentration == "High single-position concentration (top holding >= 25%)."
NoteHhi == "Elevated overall concentration by HHI."
NoteSectors == "Limited sector diversification."
NoteReasonable == "Diversification appears reasonable for a simple demo portfolio."

Spaced(a, b) == IF a = "" THEN b ELSE IF b = "" THEN a ELSE a \o " " \o b

ExpectedNotes(top_w, hhi, num_sectors) ==
    LET gated == Spaced(Spaced(
            IF top_w >= 2500 THEN NoteConcentration ELSE "",
            IF hhi >= 1500 THEN NoteHhi ELSE ""),
            IF num_sectors <= 2 THEN NoteSectors ELSE "")
    IN  IF gated = "" THEN NoteReasonable ELSE gated

\* C16: for a store with holdings, the notes of assess_diversification are
\* the concentration note iff top_position_weight >= 25.0, then the
\* elevated-HHI note iff hhi >= 0.15, then the limited-sector note iff there
\* are at most 2 sectors, each on its own condition and joined by spaces;
\* the 'reasonable' note stands alone exactly when none applies.  The same
\* holds of the notes computed for any other top weight beside the hhi and
\* the sectors of the report, so no gate depends on another.
C16_NotesGating ==
    (call.op = "assess_diversification" /\ Holdings # <<>>) =>
        /\ ~Raised(ret)
        /\ ret.notes = ExpectedNotes(ret.top_position_weight, ret.hhi,
                                     Cardinality(DOMAIN ret.sector_weights))
        /\ ret.notes = NoteReasonable <=>
               /\ ret.top_position_weight < 2500
               /\ ret.hhi < 1500
               /\ Cardinality(DOMAIN ret.sector_weights) > 2
        /\ \A w \in {2499, 2500} :
               join(notes_of(w, ret.hhi,
                             Cardinality(DOMAIN ret.sector_weights)))
                   = ExpectedNotes(w, ret.hhi,
                                   Cardinality(DOMAIN ret.sector_weights))

\* a report with the elevated-HHI note alone: top weight under 25%, three
\* sectors or more
C16_Witness ==
    /\ Returned("assess_diversification")
    /\ Holdings # <<>>
    /\ ret.notes = NoteHhi

\* the enriched holdings in the result of the last call
EnrichedReturned ==
    IF Returned("get_all_holdings")
    THEN {ret.holdings[i] : i \in 1..Len(ret.holdings)}
    ELSE IF Returned("get_holding_by_ticker") /\ "error" \notin DOMAIN ret
    THEN {ret}
    ELSE {}

RawValue(e) == e.quantity * e.current_price
RawCost(e) == e.quantity * e.purchase_price
WholeCents(mills) == mills % 10 = 0

\* C17 as stated: on the reported fields of every enriched holding,
\* profit_loss = total_value - total_cost.
C17_Original ==
    \A e \in EnrichedReturned : e.profit_loss = e.total_value - e.total_cost

\* C17: every enriched holding reports profit_loss as the difference of the
\* unrounded quantity * current_price and quantity * purchase_price, rounded
\* to 2 places; it is within 0.01 of the reported total_value - total_cost,
\* and equal to it when both products are whole cents.
C17_ProfitLossRounded ==
    \A e \in EnrichedReturned :
        /\ e.profit_loss = RoundHalfEven(RawValue(e) - RawCost(e), 10)
        /\ Abs(e.profit_loss - (e.total_value - e.total_cost)) <= 1
        /\ (WholeCents(RawValue(e)) /\ WholeCents(RawCost(e))) =>
               e.profit_loss = e.total_value - e.total_cost

\* get_all_holdings returned a lot of 2.5 units whose products are not whole
\* cents (28.125 and 29.375) and whose profit_loss is a cent off the
\* reported difference, beside a lot in whole cents
C17_Witness ==
    /\ Returned("get_all_holdings")
    /\ \E e \in EnrichedReturned :
           /\ ~WholeCents(RawValue(e))
           /\ e.profit_loss = -125
           /\ e.total_value - e.total_cost = -126
    /\ \E e \in EnrichedReturned :
           WholeCents(RawValue(e)) /\ e.profit_loss > 0

\* what the tool of call c returns on store s
ResultOf(c, s) ==
    CASE c.op = "get_all_holdings"       -> get_all_holdings(s)
      [] c.op = "get_holding_by_ticker"  -> get_holding_by_ticker(s, c.ticker)
      [] c.op = "get_portfolio_summary"  -> get_portfolio_summary(s)
      [] c.op = "assess_diversification" -> assess_diversification(s)
      [] c.op = "assess_risk"            -> assess_risk(s, s)

\* C18: every step that is a call of one of the five tools leaves the store
\* as it was, and its result is determined by the store and the argument
\* alone, whatever was called before; so after any sequence of calls the
\* store is unchanged and a repeated call returns the same result.
C18_NoEffect ==
    [][call'.op # "none" =>
          /\ store' = store
          /\ ret' = ResultOf(call', store)]_vars

\* get_portfolio_summary has returned on a store of two holdings that is
\* still in place
C18_Witness ==
    /\ Returned("get_portfolio_summary")
    /\ store.exists /\ Len(Holdings) = 2
    /\ ret.total_holdings = 2
    /\ ret = get_portfolio_summary(store)

\* C19: when assess_risk returns after the store was rewritten during the
\* call, its whole result (inputs and factors, the volatile-ticker factor
\* included) is the result assess_risk gives on one of the store contents
\* that existed during the call.
C19_SingleSnapshot ==
    (call.op = "assess_risk" /\ ret # Pending) =>
        \E s \in call.seen : ret = assess_risk(s, s)

RawFields == {"ticker", "name", "quantity", "purchase_price", "current_price"}

Lacking(h) == RawFields \ DOMAIN h

Damaged ==
    /\ store.exists
    /\ \/ ~store.parses
       \/ \E i \in 1..Len(Holdings) : Lacking(Holdings[i]) # {}

\* C20 as stated: on a store that does not parse, or with a holding that
\* lacks a raw field, every tool called raises.
C20_Original == (Damaged /\ call.op # "none") => Raised(ret)

\* where the loop of get_holding_by_ticker ends for the last call
LookupStops ==
    {i \in 1..Len(Holdings) :
        \/ "ticker" \in Lacking(Holdings[i])
        \/ SameIgnoringCase(Holdings[i].ticker, call.ticker)}

\* the last call reads a field that some holding lacks
ReadsLacking ==
    CASE call.op = "get_all_holdings" ->
             \E i \in 1..Len(Holdings) : Lacking(Holdings[i]) # {}
      [] call.op = "get_portfolio_summary" ->
             \E i \in 1..Len(Holdings) :
                 Lacking(Holdings[i]) \cap
                     {"quantity", "purchase_price", "current_price"} # {}
      [] call.op \in {"assess_diversification", "assess_risk"} ->
             \E i \in 1..Len(Holdings) :
                 Lacking(Holdings[i]) \cap
                     {"ticker", "name", "quantity", "current_price"} # {}
      [] call.op = "get_holding_by_ticker" ->
             \E i \in LookupStops :
                 /\ \A j \in LookupStops : i <= j
                 /\ Lacking(Holdings[i]) # {}

\* the store with every lacking field written in
Completed(h) == [k \in RawFields |-> IF k \in DOMAIN h THEN h[k] ELSE Msft[k]]

CompletedStore ==
    [store EXCEPT !.holdings = [i \in 1..Len(Holdings) |-> Completed(Holdings[i])]]

\* C20: on a store that exists and does not parse every tool raises.  On a
\* store with holdings that lack raw fields a tool raises exactly when it
\* reads a lacking field: get_all_holdings any of the five,
\* get_portfolio_summary quantity, purchase_price or current_price,
\* assess_diversification and assess_risk ticker, name, quantity or
\* current_price, get_holding_by_ticker the ticker of the holdings up to the
\* first match and any field of the match.  A tool that returns has read no
\* lacking field: its result is the one it gives with those fields filled in.
C20_FaultWhenRead ==
    (store.exists /\ call.op # "none") =>
        /\ ~store.parses => Raised(ret)
        /\ store.parses => (Raised(ret) <=> ReadsLacking)
        /\ (store.parses /\ ~Raised(ret)) =>
               ret = ResultOf(call, CompletedStore)

\* get_portfolio_summary returned its totals for two holdings of which one
\* has no name
C20_Witness ==
    /\ Returned("get_portfolio_summary")
    /\ Len(Holdings) = 2
    /\ \E i \in 1..2 : Lacking(Holdings[i]) = {"name"}
    /\ ret.total_holdings = 2
    /\ ret.total_portfolio_value > 0

\* the category of each factor text: 1 top position, 2 HHI, 3 sectors,
\* 4 volatile names, 5 few holdings
CategoryOf(f) ==
    CASE f \in {"Very high single-position concentration (>=40%).",
                "High single-position concentration (>=25%).",
                "Moderate single-position concentration (>=15%)."} -> 1
      [] f \in {"High overall concentration by HHI (>=0.25).",
                "Elevated concentration by HHI (>=0.15).",
                "Some concentration by HHI (>=0.10)."} -> 2
      [] f \in {"Limited sector diversification (<=2 sectors).",
                "Concentrated across few sectors (<=3 sectors)."} -> 3
      [] f = "Includes higher-volatility names (e.g., TSLA/NVDA)." -> 4
      [] f = "Few holdings (<=4) increases idiosyncratic risk." -> 5
      [] OTHER -> 0

\* the increment the table adds for category c, from the returned inputs
IncrementOf(c, inputs, hs) ==
    CASE c = 1 -> TableTop(inputs.top_position_weight_pct)
      [] c = 2 -> TableHhi(inputs.hhi)
      [] c = 3 -> TableSectors(inputs.num_sectors)
      [] c = 4 -> TableVolatile(hs)
      [] c = 5 -> TableFew(inputs.num_holdings)

Listed(c) == \E i \in 1..Len(ret.factors) : CategoryOf(ret.factors[i]) = c

\* C22: the factors of assess_risk are texts of the five categories in
\* strictly increasing category order (top position, HHI, sectors, volatile
\* names, few holdings), so at most one per category, and a category is
\* listed exactly when its increment is part of the score: the score before
\* clamping is 1.0 plus the increments of the listed categories.
C22_FactorsOrdered ==
    call.op = "assess_risk" =>
        /\ ~Raised(ret)
        /\ \A i \in 1..Len(ret.factors) : CategoryOf(ret.factors[i]) \in 1..5
        /\ \A i, j \in 1..Len(ret.factors) :
               i < j => CategoryOf(ret.factors[i]) < CategoryOf(ret.factors[j])
        /\ \A c \in 1..5 :
               Listed(c) <=> IncrementOf(c, ret.inputs, Holdings) > 0
        /\ raw_score(div, Holdings) =
               10 + SumSeq([c \in 1..5 |->
                        IF Listed(c) THEN IncrementOf(c, ret.inputs, Holdings)
                        ELSE 0])

\* assess_risk listed one factor of each of the five categories
C22_Witness ==
    /\ Returned("assess_risk")
    /\ Len(ret.factors) = 5
    /\ \A c \in 1..5 : CategoryOf(ret.factors[c]) = c

\* C23: with no holdings (store missing, or listing none) assess_risk
\* returns risk_score 3.0, level Low and one factor, the limited-sector one;
\* neither the few-holdings nor the volatile-names factor is listed.
C23_EmptyRisk ==
    (call.op = "assess_risk" /\ Holdings = <<>>) =>
        /\ ~Raised(ret)
        /\ ret.risk_score = 30
        /\ ret.risk_level = "Low"
        /\ ret.factors = <<"Limited sector diversification (<=2 sectors).">>
        /\ ret.inputs.num_sectors = 0 /\ ret.inputs.num_holdings = 0

\* assess_risk returned on a store that exists and lists no holding
C23_Witness ==
    /\ store.exists /\ Holdings = <<>>
    /\ Returned("assess_risk")
    /\ ret.risk_score = 30

\* C24: when some holding's ticker matches t ignoring case,
\* get_holding_by_ticker(t) returns the very record that get_all_holdings
\* lists at the place of the first matching holding in load order; a later
\* holding of the same ticker is never the one returned.
C24_FirstMatch ==
    (call.op = "get_holding_by_ticker" /\ Matching # {}) =>
        /\ ~Raised(ret) /\ ~Raised(get_all_holdings(store))
        /\ \E i \in Matching :
               /\ \A j \in Matching : i <= j
               /\ ret = get_all_holdings(store).holdings[i]

\* "AAPL" was looked up in a store holding an AAPL lot and, after it, an
\* aapl lot with other figures: the first lot came back
C24_Witness ==
    /\ Returned("get_holding_by_ticker")
    /\ call.ticker = "AAPL"
    /\ Cardinality({Holdings[i] : i \in Matching}) = 2
    /\ ret.name = "Apple"
    /\ ret.quantity = Holdings[1].quantity

\* C25: for a store with holdings, top_position_weight of
\* assess_diversification is the weight_pct of the first entry of
\* position_weights, and no entry has a larger weight_pct.
C25_TopIsFirst ==
    (call.op = "assess_diversification" /\ Holdings # <<>>) =>
        /\ ~Raised(ret)
        /\ ret.position_weights # <<>>
        /\ ret.top_position_weight = ret.position_weights[1].weight_pct
        /\ \A i \in 1..Len(ret.position_weights) :
               ret.position_weights[i].weight_pct <= ret.top_position_weight

\* the largest holding was loaded last and leads the list with a weight
\* that has two decimals
C25_Witness ==
    /\ Returned("assess_diversification")
    /\ Len(Holdings) = 3
    /\ ret.position_weights[1].ticker = Holdings[3].ticker
    /\ ret.position_weights[1].ticker # Holdings[1].ticker
    /\ ret.top_position_weight % 10 # 0
    /\ ret.top_position_weight > ret.position_weights[2].weight_pct

\* the names of the five analytics tools of the portfolio server
FiveOperations ==
    {"get_all_holdings", "get_holding_by_ticker", "get_portfolio_summary",
     "assess_diversification", "assess_risk"}

\* the dispatcher gives, under some name, the record of operation op
Dispatchable(op) ==
    \E name \in ToolNames : \E arguments_json \in ArgumentsJson :
        \E feed \in Feeds :
            dispatch_tool_call(name, arguments_json, store, feed)
                = ResultOf([op |-> op, ticker |-> "AAPL"], store)

\* C21: whatever the store, each of the five analytics operations is
\* reached through dispatch_tool_call under some name and returns its
\* record, and a call that is answered with 'Unknown tool: <name>' had a
\* name that is not the name of one of the operations.
C21_DispatchesFive ==
    call.op = "dispatch_tool_call" =>
        /\ \A op \in FiveOperations : Dispatchable(op)
        /\ ret = [error |-> "Unknown tool: " \o call.name] =>
               call.name \notin FiveOperations

\* the roles of a history, in order
Roles(messages) == [i \in 1..Len(messages) |-> messages[i].role]

\* the tool_call ids an assistant message lists, in order
ListedIds(message) ==
    [i \in 1..Len(message.tool_calls) |-> message.tool_calls[i].id]

\* the ids of the tool calls of the reply, in order
RepliedIds == [i \in 1..Len(agent.tool_calls) |-> agent.tool_calls[i].id]

\* the follow-up request was made in this pass of the loop
FollowedUp == agent.followup # NoRequest

\* the pass of the loop read a blank line
BlankInput == agent.before # <<>> /\ strip(agent.input) = ""

\* C26: in the chat loop, when the model's reply carries tool calls, the
\* history sent with the follow-up completion request is the history of the
\* first request, then the assistant message listing those tool calls, then
\* exactly one "tool" message per tool call, in the same order and with the
\* matching tool_call_id, and nothing else (no user message in between); in
\* run_agent.py the follow-up is always made; a blank user input appends
\* nothing to the history and sends no request.
C26_ToolMessagesFollow ==
    /\ FollowedUp =>
         LET k == Len(agent.first)
             n == Len(agent.tool_calls)
         IN  /\ n > 0
             /\ Len(agent.followup) = k + 1 + n
             /\ SubSeq(agent.followup, 1, k) = agent.first
             /\ agent.followup[k + 1].role = "assistant"
             /\ ListedIds(agent.followup[k + 1]) = RepliedIds
             /\ \A i \in 1..n :
                    /\ agent.followup[k + 1 + i].role = "tool"
                    /\ agent.followup[k + 1 + i].tool_call_id
                           = agent.tool_calls[i].id
             /\ agent.first[k].role = "user"
    /\ (agent.script = "run_agent" /\ agent.tool_calls # <<>>) => FollowedUp
    /\ BlankInput =>
         /\ agent.messages = agent.before
         /\ agent.first = NoRequest
         /\ ~FollowedUp

\* a second pass of run_agent.py whose reply carried two tool calls
C26_Witness ==
    /\ agent.script = "run_agent"
    /\ FollowedUp
    /\ Len(agent.tool_calls) = 2
    /\ Len(agent.before) > 1
    /\ Roles(agent.followup)[Len(agent.followup)] = "tool"

\* the client is inside the polling loop of a user turn
InPollingLoop == agent.pc \in {"polling", "submitting"}

\* C27: in the assistant-run client, once the remote run is in a final
\* status (one the remote service never leaves) the polling loop of the
\* user turn terminates, polling being continued fairly.
C27_PollingTerminates ==
    (InPollingLoop /\ agent.remote \in FinalStatuses) ~> ~InPollingLoop

\* the other half of C27: when polling resumes after a submission, the
\* batch holds exactly one output per requested tool call, in order, each
\* with the tool_call_id of its call.
C27_OneOutputPerCall ==
    (agent.pc = "polling" /\ agent.answered # <<>>) =>
        /\ Len(agent.outputs) = Len(agent.answered)
        /\ \A i \in 1..Len(agent.answered) :
               agent.outputs[i].tool_call_id = agent.answered[i].id

====
